---- MODULE Spec2Model ----
(***************************************************************************)
(* Sentence-level numeric density analysis                                 *)
(* (src/src/analysis/numerical/sentence_density.py,                        *)
(*  class SentenceLevelDensityAnalyzer).                                   *)
(*                                                                         *)
(* The analyzer is a pipeline of three calls on one shared instance        *)
(* (src/src/analysis/aggregator.py:229-251):                               *)
(*   analyze_sentence_density -> analyze_distribution_patterns             *)
(*                            -> calculate_informativeness                 *)
(*                                                                         *)
(* Representation.                                                         *)
(*  - A Python float is an exact rational <<p, q>>, q > 0, in lowest       *)
(*    terms.  On the sampled inputs below every density n/w*100 is exactly *)
(*    representable as a double, so threshold comparisons agree.           *)
(*  - A standard deviation (np.std) is carried by its square, the          *)
(*    population variance: the field std_numeric_density holds the         *)
(*    rational v with std = sqrt(v).  std = 0.0 iff v = 0.                 *)
(*  - A sentence is what the tokenizers of src/src/utils/text_utils.py     *)
(*    return for it: nums = len(extract_numerical_tokens(sentence)),       *)
(*    words = len(tokenize_words(sentence, remove_punct=True)), and        *)
(*    q = ('?' in sentence).  A text is the sequence of its sentences      *)
(*    (what tokenize_sentences returns); the empty text is <<>>.           *)
(***************************************************************************)
EXTENDS Integers, Sequences, FiniteSets, TLC

VARIABLES pc, text, sentence_metrics, sections, speakers, distribution,
          numerical_scores, informativeness, bar

vars == <<pc, text, sentence_metrics, sections, speakers, distribution,
          numerical_scores, informativeness, bar>>

(***************************************************************************)
(* Exact rational arithmetic (the floats of the program).                  *)
(***************************************************************************)
Abs(n) == IF n < 0 THEN -n ELSE n

RECURSIVE GCD(_, _)
GCD(a, b) == IF b = 0 THEN a ELSE GCD(b, a % b)

Rat(p, q) ==
    LET s == IF q < 0 THEN -1 ELSE 1
        g == GCD(Abs(p), Abs(q))
    IN  <<(s * p) \div g, (s * q) \div g>>

Num(n) == <<n, 1>>
Zero == <<0, 1>>
One == <<1, 1>>

RAdd(a, b) == Rat(a[1] * b[2] + b[1] * a[2], a[2] * b[2])
RSub(a, b) == Rat(a[1] * b[2] - b[1] * a[2], a[2] * b[2])
RMul(a, b) == Rat(a[1] * b[1], a[2] * b[2])
RDiv(a, b) == Rat(a[1] * b[2], a[2] * b[1])
RNeg(a) == <<-a[1], a[2]>>
RLt(a, b) == a[1] * b[2] < b[1] * a[2]
RLe(a, b) == a[1] * b[2] <= b[1] * a[2]
RGt(a, b) == RLt(b, a)
RGe(a, b) == RLe(b, a)
RMin(a, b) == IF RLe(a, b) THEN a ELSE b
RMax(a, b) == IF RGe(a, b) THEN a ELSE b
\* int(x) for x >= 0: truncation
RFloor(a) == a[1] \div a[2]

RECURSIVE RSum(_)
RSum(xs) == IF xs = <<>> THEN Zero ELSE RAdd(Head(xs), RSum(Tail(xs)))

\* np.mean of a non-empty sequence
Mean(xs) == RDiv(RSum(xs), Num(Len(xs)))

\* np.std squared (population variance, ddof = 0) of a non-empty sequence
Variance(xs) ==
    LET m == Mean(xs)
    IN  Mean([i \in 1..Len(xs) |-> RMul(RSub(xs[i], m), RSub(xs[i], m))])

\* ascending insertion sort (np.percentile / np.median sort their input)
RECURSIVE InsertAsc(_, _)
InsertAsc(x, s) ==
    IF s = <<>> THEN <<x>>
    ELSE IF RLe(x, Head(s)) THEN <<x>> \o s
    ELSE <<Head(s)>> \o InsertAsc(x, Tail(s))

RECURSIVE SortAsc(_)
SortAsc(xs) == IF xs = <<>> THEN <<>> ELSE InsertAsc(Head(xs), SortAsc(Tail(xs)))

\* np.percentile(xs, q), default method 'linear', of a non-empty sequence
Percentile(xs, q) ==
    LET s    == SortAsc(xs)
        pos  == Rat((Len(xs) - 1) * q, 100)
        lo   == RFloor(pos)
        frac == RSub(pos, Num(lo))
    IN  IF lo + 2 > Len(s) THEN s[lo + 1]
        ELSE RAdd(s[lo + 1], RMul(frac, RSub(s[lo + 2], s[lo + 1])))

RECURSIVE RMaxOf(_)
RMaxOf(xs) == IF Len(xs) = 1 THEN xs[1] ELSE RMax(Head(xs), RMaxOf(Tail(xs)))

RECURSIVE RMinOf(_)
RMinOf(xs) == IF Len(xs) = 1 THEN xs[1] ELSE RMin(Head(xs), RMinOf(Tail(xs)))

\* Python slice xs[lo:hi] with 0-based lo, exclusive hi (0 <= lo, hi <= len)
Slice(xs, lo, hi) == IF hi <= lo THEN <<>> ELSE SubSeq(xs, lo + 1, hi)

(***************************************************************************)
(* Class constants.                                                        *)
(***************************************************************************)
DENSE_THRESHOLD == 10
MODERATE_THRESHOLD == 5
SPARSE_THRESHOLD == 1
CLUSTER_WINDOW_SIZE == 5
CLUSTER_DENSITY_THRESHOLD == 12

(***************************************************************************)
(* Tokenizers (text_utils.py): a sentence carries the counts they return.  *)
(***************************************************************************)
tokenize_sentences(t) == t
tokenize_words(sentence) == sentence.words
extract_numerical_tokens(sentence) == sentence.nums

(***************************************************************************)
(* _calculate_sentence_density                                             *)
(***************************************************************************)
calculate_sentence_density(sentence) ==
    IF tokenize_words(sentence) = 0 THEN Zero
    ELSE RMul(Rat(extract_numerical_tokens(sentence), tokenize_words(sentence)),
              Num(100))

(***************************************************************************)
(* analyze_sentence_density                                                *)
(***************************************************************************)
\* Variant: the empty sentinel reports the (empty) document as all narrative.
empty_sentence_metrics_all_narrative ==
    [ total_sentences            |-> 0,
      numeric_dense_sentences    |-> 0,
      numeric_moderate_sentences |-> 0,
      numeric_sparse_sentences   |-> 0,
      narrative_sentences        |-> 0,
      mean_numeric_density       |-> Zero,
      median_numeric_density     |-> Zero,
      std_numeric_density        |-> Zero,
      max_numeric_density        |-> Zero,
      min_numeric_density        |-> Zero,
      p25_density                |-> Zero,
      p75_density                |-> Zero,
      proportion_numeric_dense   |-> Zero,
      proportion_narrative       |-> One,
      top_dense_sentences        |-> <<>>,
      density_by_position        |-> <<>> ]

empty_sentence_metrics ==
    [ total_sentences            |-> 0,
      numeric_dense_sentences    |-> 0,
      numeric_moderate_sentences |-> 0,
      numeric_sparse_sentences   |-> 0,
      narrative_sentences        |-> 0,
      mean_numeric_density       |-> Zero,
      median_numeric_density     |-> Zero,
      std_numeric_density        |-> Zero,
      max_numeric_density        |-> Zero,
      min_numeric_density        |-> Zero,
      p25_density                |-> Zero,
      p75_density                |-> Zero,
      proportion_numeric_dense   |-> Zero,
      proportion_narrative       |-> Zero,
      top_dense_sentences        |-> <<>>,
      density_by_position        |-> <<>> ]

\* Variant: strict comparisons, a sentence exactly on a threshold drops to
\* the lower tier.
classify_sentence_strict(density) ==
    IF RGt(density, Num(DENSE_THRESHOLD)) THEN "dense"
    ELSE IF RGt(density, Num(MODERATE_THRESHOLD)) THEN "moderate"
    ELSE IF RGt(density, Num(SPARSE_THRESHOLD)) THEN "sparse"
    ELSE "narrative"

\* Variant: the last branch is `elif density == 0` (narrative read as "0%
\* numbers"), so a sentence with 0 < density < 1 is counted in no tier.
classify_sentence_zero_narrative(density) ==
    IF RGe(density, Num(DENSE_THRESHOLD)) THEN "dense"
    ELSE IF RGe(density, Num(MODERATE_THRESHOLD)) THEN "moderate"
    ELSE IF RGe(density, Num(SPARSE_THRESHOLD)) THEN "sparse"
    ELSE IF density = Zero THEN "narrative"
    ELSE "uncounted"

\* the tier one sentence is counted in (the if/elif chain of the loop)
classify_sentence(density) ==
    IF RGe(density, Num(DENSE_THRESHOLD)) THEN "dense"
    ELSE IF RGe(density, Num(MODERATE_THRESHOLD)) THEN "moderate"
    ELSE IF RGe(density, Num(SPARSE_THRESHOLD)) THEN "sparse"
    ELSE "narrative"

\* sorted(densities, key=density, reverse=True): stable, so equal densities
\* keep document order.  Entries are <<sentence index (0-based), density>>.
RECURSIVE InsertDesc(_, _)
InsertDesc(x, s) ==
    IF s = <<>> THEN <<x>>
    ELSE IF RGe(Head(s)[2], x[2]) THEN <<Head(s)>> \o InsertDesc(x, Tail(s))
    ELSE <<x>> \o s

RECURSIVE SortDesc(_)
SortDesc(ps) ==
    IF ps = <<>> THEN <<>>
    ELSE InsertDesc(ps[Len(ps)], SortDesc(SubSeq(ps, 1, Len(ps) - 1)))

\* Variant: the pairs are ranked from the last sentence to the first, so
\* sentences of equal density come out in reverse document order.
top_dense_reversed_ties(density_values) ==
    LET n      == Len(density_values)
        sorted == SortDesc([i \in 1..n |-> <<n - i, density_values[n - i + 1]>>])
    IN  SubSeq(sorted, 1, IF Len(sorted) < 10 THEN Len(sorted) ELSE 10)

top_dense(density_values) ==
    LET sorted == SortDesc([i \in 1..Len(density_values) |-> <<i - 1, density_values[i]>>])
    IN  SubSeq(sorted, 1, IF Len(sorted) < 10 THEN Len(sorted) ELSE 10)

analyze_sentence_density(t) ==
    LET sents          == tokenize_sentences(t)
        density_values == [i \in 1..Len(sents) |-> calculate_sentence_density(sents[i])]
        count(tier)    == Cardinality({i \in 1..Len(sents) :
                                         classify_sentence(density_values[i]) = tier})
        total          == Len(sents)
    IN  IF sents = <<>> THEN empty_sentence_metrics
        ELSE
        [ total_sentences            |-> total,
          numeric_dense_sentences    |-> count("dense"),
          numeric_moderate_sentences |-> count("moderate"),
          numeric_sparse_sentences   |-> count("sparse"),
          narrative_sentences        |-> count("narrative"),
          mean_numeric_density       |-> Mean(density_values),
          median_numeric_density     |-> Percentile(density_values, 50),
          std_numeric_density        |-> Variance(density_values),
          max_numeric_density        |-> RMaxOf(density_values),
          min_numeric_density        |-> RMinOf(density_values),
          p25_density                |-> Percentile(density_values, 25),
          p75_density                |-> Percentile(density_values, 75),
          proportion_numeric_dense   |-> Rat(count("dense"), total),
          proportion_narrative       |-> Rat(count("narrative"), total),
          top_dense_sentences        |-> top_dense(density_values),
          density_by_position        |-> density_values ]

(***************************************************************************)
(* _classify_pattern                                                       *)
(*   cv = std / mean if mean > 0 else 0.  std and mean are >= 0, so        *)
(*   cv < t  iff  variance < t^2 * mean^2.  For an empty sequence np.mean  *)
(*   is nan, `mean > 0` is False and cv = 0.                               *)
(***************************************************************************)
cv_defined(all_densities) ==
    all_densities # <<>> /\ RGt(Mean(all_densities), Zero)

\* cv < num/den
cv_below(all_densities, num, den) ==
    IF cv_defined(all_densities)
    THEN RLt(Variance(all_densities),
             RMul(Rat(num * num, den * den),
                  RMul(Mean(all_densities), Mean(all_densities))))
    ELSE 0 < num

\* cv > num/den
cv_above(all_densities, num, den) ==
    IF cv_defined(all_densities)
    THEN RGt(Variance(all_densities),
             RMul(Rat(num * num, den * den),
                  RMul(Mean(all_densities), Mean(all_densities))))
    ELSE 0 > num

\* Variant: the confidence is not capped at 1.0.
front_loaded_confidence_uncapped(begin_vs_middle) ==
    RDiv(begin_vs_middle, Num(10))

front_loaded_confidence(begin_vs_middle) ==
    RMin(RDiv(begin_vs_middle, Num(10)), One)

back_loaded_confidence(end_vs_middle) ==
    RMin(RDiv(end_vs_middle, Num(10)), One)

\* Variant: the positional rules are tried before the uniform rule.
classify_pattern_positional_first(beginning, middle, end, all_densities) ==
    LET significant_diff == Num(3)
        begin_vs_middle  == RSub(beginning, middle)
        end_vs_middle    == RSub(end, middle)
        begin_vs_end     == RSub(beginning, end)
    IN  IF RGt(begin_vs_middle, significant_diff) /\ RGt(begin_vs_end, significant_diff)
        THEN <<"front-loaded", front_loaded_confidence(begin_vs_middle)>>
        ELSE IF RGt(end_vs_middle, significant_diff) /\ RGt(end_vs_middle, RNeg(begin_vs_middle))
        THEN <<"back-loaded", back_loaded_confidence(end_vs_middle)>>
        ELSE IF cv_below(all_densities, 3, 10) THEN <<"uniform", Rat(9, 10)>>
        ELSE IF cv_above(all_densities, 7, 10) THEN <<"clustered", Rat(8, 10)>>
        ELSE <<"scattered", Rat(6, 10)>>

classify_pattern(beginning, middle, end, all_densities) ==
    LET significant_diff == Num(3)
        begin_vs_middle  == RSub(beginning, middle)
        end_vs_middle    == RSub(end, middle)
        begin_vs_end     == RSub(beginning, end)
    IN  IF cv_below(all_densities, 3, 10) THEN <<"uniform", Rat(9, 10)>>
        ELSE IF RGt(begin_vs_middle, significant_diff) /\ RGt(begin_vs_end, significant_diff)
        THEN <<"front-loaded", front_loaded_confidence(begin_vs_middle)>>
        ELSE IF RGt(end_vs_middle, significant_diff) /\ RGt(end_vs_middle, RNeg(begin_vs_middle))
        THEN <<"back-loaded", back_loaded_confidence(end_vs_middle)>>
        ELSE IF cv_above(all_densities, 7, 10) THEN <<"clustered", Rat(8, 10)>>
        ELSE <<"scattered", Rat(6, 10)>>

(***************************************************************************)
(* _identify_clusters: the rolling-window loop.  The loop state is         *)
(* [in_cluster, cluster_start, clusters, cluster_densities]; window i is   *)
(* densities[i : i + window_size] (0-based i).                             *)
(***************************************************************************)
\* Variant: a window is already hot at half the threshold.
window_is_hot_half_threshold(densities, i) ==
    RGe(RMul(Mean(Slice(densities, i, i + CLUSTER_WINDOW_SIZE)), Num(2)),
        Num(CLUSTER_DENSITY_THRESHOLD))

\* Variant: a window is hot only when its mean is strictly above the threshold.
window_is_hot_strict(densities, i) ==
    RGt(Mean(Slice(densities, i, i + CLUSTER_WINDOW_SIZE)), Num(CLUSTER_DENSITY_THRESHOLD))

window_is_hot(densities, i) ==
    RGe(Mean(Slice(densities, i, i + CLUSTER_WINDOW_SIZE)), Num(CLUSTER_DENSITY_THRESHOLD))

\* the index stored as cluster_end when window i is the first cold window
\* after a hot run
cluster_end_at(i) == i - 1 + CLUSTER_WINDOW_SIZE

cluster_step(densities, i, st) ==
    IF window_is_hot(densities, i)
    THEN IF ~st.in_cluster
         THEN [st EXCEPT !.cluster_start = i, !.in_cluster = TRUE]
         ELSE st
    ELSE IF st.in_cluster
         THEN LET cluster_end == cluster_end_at(i)
              IN  [st EXCEPT
                     !.clusters = Append(@, <<st.cluster_start, cluster_end>>),
                     !.cluster_densities =
                        Append(@, Mean(Slice(densities, st.cluster_start, cluster_end))),
                     !.in_cluster = FALSE]
         ELSE st

RECURSIVE cluster_loop(_, _, _)
cluster_loop(densities, i, st) ==
    IF i > Len(densities) - CLUSTER_WINDOW_SIZE THEN st
    ELSE cluster_loop(densities, i + 1, cluster_step(densities, i, st))

identify_clusters(densities) ==
    LET st0 == [in_cluster |-> FALSE, cluster_start |-> 0,
                clusters |-> <<>>, cluster_densities |-> <<>>]
        st  == cluster_loop(densities, 0, st0)
    IN  IF Len(densities) < CLUSTER_WINDOW_SIZE THEN <<<<>>, <<>>>>
        ELSE IF st.in_cluster
        THEN <<Append(st.clusters, <<st.cluster_start, Len(densities) - 1>>),
               Append(st.cluster_densities,
                      Mean(Slice(densities, st.cluster_start, Len(densities))))>>
        ELSE <<st.clusters, st.cluster_densities>>

(***************************************************************************)
(* analyze_distribution_patterns                                           *)
(*   sects: mapping section name -> text, spks: mapping speaker -> text;   *)
(*   None and {} are both the empty mapping (both are falsy).              *)
(*   density_variance_ratio and coefficient_of_variation are std / mean:   *)
(*   like std they are carried by their squares, variance / mean^2.        *)
(***************************************************************************)
NoMapping == [k \in {} |-> <<>>]

\* the densities of the sentences of a text selected by a filter on '?'
densities_where(t, wantq) ==
    LET sents == tokenize_sentences(t)
        F[i \in 0..Len(sents)] ==
            IF i = 0 THEN <<>>
            ELSE IF sents[i].q = wantq
                 THEN Append(F[i - 1], calculate_sentence_density(sents[i]))
                 ELSE F[i - 1]
    IN  F[Len(sents)]

qa_analysis(sects) ==
    LET none == [question |-> Zero, answer |-> Zero, differential |-> Zero]
    IN  IF DOMAIN sects # {} /\ "Q&A" \in DOMAIN sects
        THEN LET qa_text == sects["Q&A"]
                 qs == densities_where(qa_text, TRUE)
                 as == densities_where(qa_text, FALSE)
                 question_density == IF qs # <<>> THEN Mean(qs) ELSE Zero
                 answer_density   == IF as # <<>> THEN Mean(as) ELSE Zero
             IN  IF qa_text # <<>>
                 THEN [question |-> question_density, answer |-> answer_density,
                       differential |-> RSub(answer_density, question_density)]
                 ELSE none
        ELSE none

speaker_analysis(spks) ==
    LET with_sentences == {sp \in DOMAIN spks : tokenize_sentences(spks[sp]) # <<>>}
    IN  [sp \in with_sentences |->
            Mean([i \in 1..Len(spks[sp]) |-> calculate_sentence_density(spks[sp][i])])]

\* Variant: the end segment is as long as the beginning segment.
positional_split_symmetric(total) ==
    [beginning_idx |-> (total * 2) \div 10,
     end_idx       |-> total - ((total * 2) \div 10)]

positional_split(total) ==
    [beginning_idx |-> (total * 2) \div 10, end_idx |-> (total * 8) \div 10]

\* Variant: the deviation is divided by the mean only once more than it
\* should be in the squared form, i.e. the ratio is std / sqrt(mean).
std_over_mean_root(sm) ==
    IF RGt(sm.mean_numeric_density, Zero)
    THEN RDiv(sm.std_numeric_density, sm.mean_numeric_density)
    ELSE Zero

std_over_mean(sm) ==
    IF RGt(sm.mean_numeric_density, Zero)
    THEN RDiv(sm.std_numeric_density,
              RMul(sm.mean_numeric_density, sm.mean_numeric_density))
    ELSE Zero

analyze_distribution_patterns(sm, sects, spks) ==
    LET densities == sm.density_by_position
        total     == Len(densities)
        split     == positional_split(total)
        beginning_idx == split.beginning_idx
        end_idx       == split.end_idx
        beginning_density == IF beginning_idx > 0
                             THEN Mean(Slice(densities, 0, beginning_idx)) ELSE Zero
        middle_density    == IF end_idx > beginning_idx
                             THEN Mean(Slice(densities, beginning_idx, end_idx)) ELSE Zero
        end_density       == IF total > end_idx
                             THEN Mean(Slice(densities, end_idx, total)) ELSE Zero
        pattern  == classify_pattern(beginning_density, middle_density, end_density, densities)
        clusters == identify_clusters(densities)
        qa       == qa_analysis(sects)
    IN  [ beginning_density        |-> beginning_density,
          middle_density           |-> middle_density,
          end_density              |-> end_density,
          pattern_type             |-> pattern[1],
          pattern_confidence       |-> pattern[2],
          cluster_count            |-> Len(clusters[1]),
          cluster_positions        |-> clusters[1],
          cluster_densities        |-> clusters[2],
          question_avg_density     |-> qa.question,
          answer_avg_density       |-> qa.answer,
          qa_density_differential  |-> qa.differential,
          speaker_densities        |-> speaker_analysis(spks),
          density_variance_ratio   |-> std_over_mean(sm),
          coefficient_of_variation |-> std_over_mean(sm) ]

(***************************************************************************)
(* calculate_informativeness                                               *)
(*   ns: the NumericalScores of transparency.py (external input).  The     *)
(*   distribution argument is accepted and never read.                     *)
(***************************************************************************)
\* Variant: the density ratio is not capped at 1.0.
density_component_uncapped(mean_numeric_density) ==
    RMul(RDiv(mean_numeric_density, Num(10)), Num(30))

density_component(mean_numeric_density) ==
    RMul(RMin(RDiv(mean_numeric_density, Num(10)), One), Num(30))

\* Variant: the specificity index is first raised to its documented floor 0.3.
specificity_component_floored(specificity_index) ==
    RMul(RDiv(RMax(specificity_index, Rat(3, 10)), Num(2)), Num(25))

specificity_component(specificity_index) ==
    RMul(RDiv(specificity_index, Num(2)), Num(25))

guidance_component(guidance_density) ==
    RMul(RMin(RDiv(guidance_density, Num(5)), One), Num(25))

context_component(contextualization_quality_score) ==
    RMul(contextualization_quality_score, Num(20))

informativeness_score(sm, ns) ==
    RAdd(RAdd(density_component(sm.mean_numeric_density),
              specificity_component(ns.numerical_specificity_index)),
         RAdd(guidance_component(ns.forward_looking_density),
              context_component(ns.contextualization_quality_score)))

forecast_relevance_score(ns) ==
    RMin(RAdd(RAdd(RMul(ns.forward_looking_density, Num(40)),
                   RMul(RDiv(ns.forward_to_backward_ratio, Num(3)), Num(20))),
              RAdd(specificity_component(ns.numerical_specificity_index),
                   context_component(ns.contextualization_quality_score))),
         Num(100))

\* Variant: strict comparisons, a score exactly on a threshold drops a level.
quantitative_level_strict(score) ==
    IF RGt(score, Num(75)) THEN "very_high"
    ELSE IF RGt(score, Num(60)) THEN "high"
    ELSE IF RGt(score, Num(40)) THEN "medium"
    ELSE IF RGt(score, Num(25)) THEN "low"
    ELSE "very_low"

quantitative_level(score) ==
    IF RGe(score, Num(75)) THEN "very_high"
    ELSE IF RGe(score, Num(60)) THEN "high"
    ELSE IF RGe(score, Num(40)) THEN "medium"
    ELSE IF RGe(score, Num(25)) THEN "low"
    ELSE "very_low"

\* Variant: the tier is bucketed on the disclosure-level thresholds (75, 60).
classify_transparency_tier_level_cuts(score) ==
    IF RGe(score, Num(75)) THEN "top_quartile"
    ELSE IF RGe(score, Num(60)) THEN "above_average"
    ELSE IF RGe(score, Num(40)) THEN "average"
    ELSE IF RGe(score, Num(25)) THEN "below_average"
    ELSE "bottom_quartile"

classify_transparency_tier(score) ==
    IF RGe(score, Num(70)) THEN "top_quartile"
    ELSE IF RGe(score, Num(55)) THEN "above_average"
    ELSE IF RGe(score, Num(40)) THEN "average"
    ELSE IF RGe(score, Num(25)) THEN "below_average"
    ELSE "bottom_quartile"

\* Variant: the baseline is 3.0% instead of 3.5%.
numeric_avoidance_risk_baseline3(mean_numeric_density) ==
    RMin(RMax(Zero, RMul(RSub(Num(3), mean_numeric_density), Num(20))), Num(100))

\* Variant: the risk is scaled by 10 instead of 20 per percentage point.
numeric_avoidance_risk_half(mean_numeric_density) ==
    RMin(RMax(Zero, RMul(RSub(Rat(35, 10), mean_numeric_density), Num(10))), Num(100))

numeric_avoidance_risk(mean_numeric_density) ==
    RMin(RMax(Zero, RMul(RSub(Rat(35, 10), mean_numeric_density), Num(20))), Num(100))

vagueness_penalty(specificity_index) ==
    RMul(RMax(Zero, RSub(One, RDiv(specificity_index, Num(2)))), Num(50))

\* Variant: a score of exactly 50 already counts as above the benchmark.
vs_sp500_inclusive(score) ==
    IF RGe(score, Num(50)) THEN "above"
    ELSE IF RGe(score, Num(45)) THEN "at"
    ELSE "below"

vs_sp500(score) ==
    IF RGt(score, Num(50)) THEN "above"
    ELSE IF RGe(score, Num(45)) THEN "at"
    ELSE "below"

calculate_informativeness(sm, ns, dist) ==
    LET numeric_sentences == sm.numeric_dense_sentences
                             + sm.numeric_moderate_sentences
                             + sm.numeric_sparse_sentences
        numeric_inclusion_ratio == IF sm.total_sentences > 0
                                   THEN Rat(numeric_sentences, sm.total_sentences)
                                   ELSE Zero
        score == informativeness_score(sm, ns)
    IN  [ numeric_inclusion_ratio       |-> numeric_inclusion_ratio,
          guidance_numeric_density      |-> ns.forward_looking_density,
          results_numeric_density       |-> ns.backward_looking_density,
          specificity_weighted_nir      |->
              RMul(numeric_inclusion_ratio, RDiv(ns.numerical_specificity_index, Num(2))),
          informativeness_score         |-> score,
          forecast_relevance_score      |-> forecast_relevance_score(ns),
          quantitative_disclosure_level |-> quantitative_level(score),
          transparency_tier             |-> classify_transparency_tier(score),
          numeric_avoidance_risk        |-> numeric_avoidance_risk(sm.mean_numeric_density),
          vagueness_penalty             |-> vagueness_penalty(ns.numerical_specificity_index),
          contextualization_score       |-> ns.contextualization_quality_score,
          vs_sp500_informativeness      |-> vs_sp500(score) ]

(***************************************************************************)
(* _density_bar: the bar of the ASCII heatmap, a string of max_width cells *)
(* between brackets, modelled as the sequence of its characters ("#" for   *)
(* the full block, "-" for the light shade).  int() truncates toward zero. *)
(***************************************************************************)
RTrunc(x) == IF RGe(x, Zero) THEN RFloor(x) ELSE 0 - RFloor(RNeg(x))

\* "c" * k: the empty string when k <= 0
Repeat(ch, k) == [i \in 1..k |-> ch]

\* Variant: the width is not clamped at max_width.
density_bar_unclamped(density, max_width) ==
    LET max_density == Num(20)
        width == RTrunc(RMul(RDiv(density, max_density), Num(max_width)))
    IN  <<"[">> \o Repeat("#", width) \o Repeat("-", max_width - width) \o <<"]">>

density_bar(density, max_width) ==
    LET max_density == Num(20)
        raw   == RTrunc(RMul(RDiv(density, max_density), Num(max_width)))
        width == IF raw < max_width THEN raw ELSE max_width
    IN  <<"[">> \o Repeat("#", width) \o Repeat("-", max_width - width) \o <<"]">>

(***************************************************************************)
(* The state machine.  Each caller c drives one document through the       *)
(* pipeline on the shared (stateless) analyzer:                            *)
(*   pc[c] = "input"    the document's sentences are being supplied        *)
(*           "density"  analyze_sentence_density has returned              *)
(*           "pattern"  analyze_distribution_patterns has returned         *)
(*           "info"     calculate_informativeness has returned             *)
(***************************************************************************)
Callers == {"a", "b"}

None == [none |-> TRUE]

Init ==
    /\ pc = [c \in Callers |-> "input"]
    /\ text = [c \in Callers |-> <<>>]
    /\ sentence_metrics = [c \in Callers |-> None]
    /\ sections = [c \in Callers |-> NoMapping]
    /\ speakers = [c \in Callers |-> NoMapping]
    /\ distribution = [c \in Callers |-> None]
    /\ numerical_scores = [c \in Callers |-> None]
    /\ informativeness = [c \in Callers |-> None]
    /\ bar = [c \in Callers |-> None]

\* the segmenter hands over the next sentence of c's document
ReadSentence(c, sentence, maxlen) ==
    /\ pc[c] = "input"
    /\ Len(text[c]) < maxlen
    /\ text' = [text EXCEPT ![c] = Append(@, sentence)]
    /\ UNCHANGED <<pc, sentence_metrics, sections, speakers, distribution,
                   numerical_scores, informativeness, bar>>

\* Variant: the metrics are kept on the shared analyzer instance, where
\* every caller sees the result of the latest call.
AnalyzeSentenceDensity_on_instance(c) ==
    /\ pc[c] = "input"
    /\ sentence_metrics' = [d \in Callers |-> analyze_sentence_density(text[c])]
    /\ pc' = [pc EXCEPT ![c] = "density"]
    /\ UNCHANGED <<text, sections, speakers, distribution, numerical_scores,
                   informativeness, bar>>

AnalyzeSentenceDensity(c) ==
    /\ pc[c] = "input"
    /\ sentence_metrics' = [sentence_metrics EXCEPT ![c] = analyze_sentence_density(text[c])]
    /\ pc' = [pc EXCEPT ![c] = "density"]
    /\ UNCHANGED <<text, sections, speakers, distribution, numerical_scores,
                   informativeness, bar>>

AnalyzeDistributionPatterns(c, sects, spks) ==
    /\ pc[c] = "density"
    /\ sections' = [sections EXCEPT ![c] = sects]
    /\ speakers' = [speakers EXCEPT ![c] = spks]
    /\ distribution' = [distribution EXCEPT ![c] =
                          analyze_distribution_patterns(sentence_metrics[c], sects, spks)]
    /\ pc' = [pc EXCEPT ![c] = "pattern"]
    /\ UNCHANGED <<text, sentence_metrics, numerical_scores, informativeness, bar>>

CalculateInformativeness(c, ns) ==
    /\ pc[c] = "pattern"
    /\ numerical_scores' = [numerical_scores EXCEPT ![c] = ns]
    /\ informativeness' = [informativeness EXCEPT ![c] =
                             calculate_informativeness(sentence_metrics[c], ns, distribution[c])]
    /\ pc' = [pc EXCEPT ![c] = "info"]
    /\ UNCHANGED <<text, sentence_metrics, sections, speakers, distribution, bar>>

\* c renders one bar of the heatmap
DensityBar(c, density, max_width) ==
    /\ bar' = [bar EXCEPT ![c] = [density |-> density, max_width |-> max_width,
                                  out |-> density_bar(density, max_width)]]
    /\ UNCHANGED <<pc, text, sentence_metrics, sections, speakers, distribution,
                   numerical_scores, informativeness>>

(***************************************************************************)
(* Spec: the sentence density classifier.  One caller; the tokenizers'     *)
(* counts for a sentence range over 0..MaxNumTokens numeric tokens and a   *)
(* sample of word counts that puts sentences on, between and beyond the    *)
(* tier thresholds (1/200 = 0.5%, 1/100 = 1%, 1/25 = 4%, 1/20 = 5%,        *)
(* 2/25 = 8%, 1/10 = 10%, 2/1 = 200%), and a sentence without words.       *)
(***************************************************************************)
MaxNumTokens == 2
MaxDocLen == 2
WordCounts == {0, 1, 10, 20, 25, 100, 200}
ClassifierSentences == [nums : 0..MaxNumTokens, words : WordCounts, q : {FALSE}]

Next ==
    \E c \in {"a"} :
        \/ \E s \in ClassifierSentences : ReadSentence(c, s, MaxDocLen)
        \/ AnalyzeSentenceDensity(c)

Spec == Init /\ [][Next]_vars

(***************************************************************************)
(* Properties of the sentence density classifier (checked under Spec).     *)
(***************************************************************************)
Analysed(c) == pc[c] # "input"

InUnit(x) == RGe(x, Zero) /\ RLe(x, One)

\* C1: for every sentence of an analysed document the per-sentence density
\* is in [0, 100], it is 0.0 when the sentence has no numeric token, and it
\* is 0.0 when the sentence has no word token.
C1_DensityWithinPercentRange ==
    \A c \in Callers :
        Analysed(c) =>
            \A i \in 1..Len(text[c]) :
                LET d == sentence_metrics[c].density_by_position[i]
                IN  /\ RGe(d, Zero)
                    /\ RLe(d, Num(100))
                    /\ (text[c][i].nums = 0 => d = Zero)
                    /\ (text[c][i].words = 0 => d = Zero)

\* C2: for every non-empty document the four tier counts sum to
\* total_sentences, both proportions are in [0,1], and
\* proportion_numeric_dense + proportion_narrative + (moderate+sparse)/total = 1.
C2_TierCountsPartition ==
    \A c \in Callers :
        (Analysed(c) /\ text[c] # <<>>) =>
            LET m == sentence_metrics[c]
            IN  /\ m.total_sentences = Len(text[c])
                /\ m.numeric_dense_sentences + m.numeric_moderate_sentences
                     + m.numeric_sparse_sentences + m.narrative_sentences
                     = m.total_sentences
                /\ InUnit(m.proportion_numeric_dense)
                /\ InUnit(m.proportion_narrative)
                /\ RAdd(RAdd(m.proportion_numeric_dense, m.proportion_narrative),
                        Rat(m.numeric_moderate_sentences + m.numeric_sparse_sentences,
                            m.total_sentences)) = One

\* a two-sentence document analysed, one sentence dense and one narrative
C2_Witness ==
    /\ pc["a"] = "density"
    /\ Len(text["a"]) = 2
    /\ sentence_metrics["a"].numeric_dense_sentences = 1
    /\ sentence_metrics["a"].narrative_sentences = 1

\* the number of sentences of c's document whose density satisfies P
CountWhere(c, P(_)) ==
    Cardinality({i \in 1..Len(text[c]) : P(sentence_metrics[c].density_by_position[i])})

IsDense(d) == RGe(d, Num(10))
IsModerate(d) == RGe(d, Num(5)) /\ RLt(d, Num(10))
IsSparse(d) == RGe(d, Num(1)) /\ RLt(d, Num(5))
IsNarrative(d) == RLt(d, Num(1))

C4_EmptyInputAllZero ==
    \A c \in Callers :
        (Analysed(c) /\ text[c] = <<>>) =>
            LET m == sentence_metrics[c]
            IN  /\ m.total_sentences = 0
                /\ m.numeric_dense_sentences = 0
                /\ m.numeric_moderate_sentences = 0
                /\ m.numeric_sparse_sentences = 0
                /\ m.narrative_sentences = 0
                /\ m.mean_numeric_density = Zero
                /\ m.median_numeric_density = Zero
                /\ m.std_numeric_density = Zero
                /\ m.max_numeric_density = Zero
                /\ m.min_numeric_density = Zero
                /\ m.p25_density = Zero
                /\ m.p75_density = Zero
                /\ m.proportion_numeric_dense = Zero
                /\ m.proportion_narrative = Zero
                /\ m.top_dense_sentences = <<>>
                /\ m.density_by_position = <<>>

\* the empty document has been analysed
C4_Witness ==
    pc["a"] = "density" /\ text["a"] = <<>>

(***************************************************************************)
(* SpecPattern: the distribution pattern analyzer.  One caller; documents  *)
(* of up to MaxPatternLen sentences at 0%, 15% (3/20) or 60% (3/5); the    *)
(* optional section and speaker mappings are absent or carry a short text  *)
(* with one question and one answer.                                       *)
(***************************************************************************)
MaxPatternLen == 8
PatternSentences ==
    { [nums |-> 0, words |-> 1, q |-> FALSE],
      [nums |-> 3, words |-> 20, q |-> FALSE],
      [nums |-> 3, words |-> 5, q |-> FALSE] }

QAText == << [nums |-> 0, words |-> 10, q |-> TRUE],
             [nums |-> 1, words |-> 10, q |-> FALSE] >>

PatternAuxInputs ==
    { <<NoMapping, NoMapping>>,
      <<[k \in {"Q&A"} |-> QAText], [k \in {"CEO"} |-> QAText]>> }

NextPattern ==
    \E c \in {"a"} :
        \/ \E s \in PatternSentences : ReadSentence(c, s, MaxPatternLen)
        \/ AnalyzeSentenceDensity(c)
        \/ \E aux \in PatternAuxInputs : AnalyzeDistributionPatterns(c, aux[1], aux[2])

SpecPattern == Init /\ [][NextPattern]_vars

(***************************************************************************)
(* Properties of the distribution pattern analyzer (under SpecPattern).    *)
(***************************************************************************)
HasPattern(c) == pc[c] \in {"pattern", "info"}

\* C5: the cluster ranges of cluster_positions are in increasing order,
\* pairwise non-overlapping (no sentence index in two clusters), and every
\* start and end index lies in [0, total_sentences).
C5_ClustersOrderedDisjoint ==
    \A c \in Callers :
        HasPattern(c) =>
            LET cp == distribution[c].cluster_positions
                n  == sentence_metrics[c].total_sentences
            IN  /\ \A k \in 1..Len(cp) :
                      /\ 0 <= cp[k][1]
                      /\ cp[k][1] <= cp[k][2]
                      /\ cp[k][2] < n
                /\ \A k \in 1..(Len(cp) - 1) : cp[k][2] < cp[k + 1][1]

\* the density sequence ds is a run of exactly 5 sentences at 15% that
\* starts at 0-based index a, with only 0% sentences before and after it and
\* at least one on each side
BorderedRun(ds, a) ==
    /\ a >= 1
    /\ Len(ds) >= a + 6
    /\ \A i \in 1..Len(ds) :
          ds[i] = IF a < i /\ i <= a + 5 THEN Num(15) ELSE Zero

PatternTypes == {"uniform", "front-loaded", "back-loaded", "clustered", "scattered"}

\* C7: for every input, including the empty density sequence and a
\* sequence of all zeros, pattern_type is one of the five labels and
\* pattern_confidence is in [0,1].
C7_PatternTypeAndConfidence ==
    \A c \in Callers :
        HasPattern(c) =>
            /\ distribution[c].pattern_type \in PatternTypes
            /\ InUnit(distribution[c].pattern_confidence)

\* a front-loaded document whose beginning exceeds its middle by more than
\* 10 points, so that the confidence is the clamped value
C7_Witness ==
    /\ pc["a"] = "pattern"
    /\ distribution["a"].pattern_type = "front-loaded"
    /\ RGt(RSub(distribution["a"].beginning_density, distribution["a"].middle_density),
           Num(10))


\* C19: density_variance_ratio equals coefficient_of_variation, and both are
\* std_numeric_density / mean_numeric_density when the mean is > 0 and 0
\* when the mean is 0 (the deviation and the ratio are held by their
\* squares, so the ratio times mean^2 is the variance).
C19_VarianceRatioIsCV ==
    \A c \in Callers :
        HasPattern(c) =>
            LET mean == sentence_metrics[c].mean_numeric_density
                var  == sentence_metrics[c].std_numeric_density
                cv   == distribution[c].coefficient_of_variation
            IN  /\ distribution[c].density_variance_ratio = cv
                /\ RGt(mean, Zero) => RMul(cv, RMul(mean, mean)) = var
                /\ mean = Zero => cv = Zero

\* a document with a positive mean and a positive deviation
C19_Witness ==
    /\ HasPattern("a")
    /\ RGt(sentence_metrics["a"].mean_numeric_density, Zero)
    /\ RGt(distribution["a"].coefficient_of_variation, Zero)
    /\ distribution["a"].coefficient_of_variation # One

(***************************************************************************)
(* SpecInfo: the informativeness composer.  Two callers run the pipeline   *)
(* on the shared analyzer, each on its own document (sentences at 0% or    *)
(* 20%, so that mean densities fall below, on and above the 10% ceiling)   *)
(* and with its own external NumericalScores.  The external scores include *)
(* values outside their documented ranges (specificity 4.0 > 2.0,          *)
(* contextualization -1 < 0, forward-looking density beyond the 5% cap).   *)
(***************************************************************************)
MaxInfoLen == 2
InfoSentences ==
    { [nums |-> 0, words |-> 1, q |-> FALSE],
      [nums |-> 1, words |-> 5, q |-> FALSE] }

NumericalScoreInputs ==
    [ numerical_specificity_index      : {Rat(3, 10), Num(2), Num(4)},
      forward_looking_density          : {Zero, Num(5), Num(10)},
      backward_looking_density         : {Zero},
      forward_to_backward_ratio        : {Num(3)},
      contextualization_quality_score  : {Num(-1), Zero, One} ]

NextInfo ==
    \E c \in Callers :
        \/ \E s \in InfoSentences : ReadSentence(c, s, MaxInfoLen)
        \/ AnalyzeSentenceDensity(c)
        \/ AnalyzeDistributionPatterns(c, NoMapping, NoMapping)
        \/ \E ns \in NumericalScoreInputs : CalculateInformativeness(c, ns)

SpecInfo == Init /\ [][NextInfo]_vars

(***************************************************************************)
(* Properties of the informativeness composer (under SpecInfo).            *)
(***************************************************************************)
HasInfo(c) == pc[c] = "info"

\* C8: informativeness_score is always in [0,100], also when the external
\* numerical scores are outside their documented ranges.
C8_ScoreWithinBounds ==
    \A c \in Callers :
        HasInfo(c) =>
            /\ RGe(informativeness[c].informativeness_score, Zero)
            /\ RLe(informativeness[c].informativeness_score, Num(100))

\* the inputs of the scenario: mean_density = 0, specificity_index = 0.3,
\* forward_looking_density = 0, contextualization_quality = 0
FloorScenario(c) ==
    /\ HasInfo(c)
    /\ sentence_metrics[c].mean_numeric_density = Zero
    /\ numerical_scores[c].numerical_specificity_index = Rat(3, 10)
    /\ numerical_scores[c].forward_looking_density = Zero
    /\ numerical_scores[c].contextualization_quality_score = Zero

\* C9 (as stated): in the scenario informativeness_score = 0.0,
\* numeric_avoidance_risk = 70.0 and quantitative_disclosure_level = very_low.
C9_FloorScenarioScoreZero ==
    \A c \in Callers :
        FloorScenario(c) =>
            /\ informativeness[c].informativeness_score = Zero
            /\ informativeness[c].numeric_avoidance_risk = Num(70)
            /\ informativeness[c].quantitative_disclosure_level = "very_low"

\* C9 (amended): in the scenario informativeness_score = 3.75 (the
\* specificity term 0.3/2.0*25), numeric_avoidance_risk = 70.0 and
\* quantitative_disclosure_level = very_low.
C9_FloorScenarioScore ==
    \A c \in Callers :
        FloorScenario(c) =>
            /\ informativeness[c].informativeness_score = Rat(375, 100)
            /\ informativeness[c].numeric_avoidance_risk = Num(70)
            /\ informativeness[c].quantitative_disclosure_level = "very_low"

\* the scenario has been computed for a non-empty, purely narrative document
C9_Witness ==
    FloorScenario("a") /\ Len(text["a"]) = 2

\* the inputs of informativeness_score, in the order mean_density,
\* specificity_index, forward_looking_density, contextualization_quality
ScoreInputs(c) ==
    << sentence_metrics[c].mean_numeric_density,
       numerical_scores[c].numerical_specificity_index,
       numerical_scores[c].forward_looking_density,
       numerical_scores[c].contextualization_quality_score >>

\* y differs from x at most in coordinate k, where it is not smaller
RaisedAt(x, y, k) ==
    /\ RLe(x[k], y[k])
    /\ \A j \in 1..4 : j # k => x[j] = y[j]

\* C10: informativeness_score is non-decreasing in each of mean_density,
\* specificity_index, forward_looking_density and contextualization_quality
\* with the other three fixed; raising mean_density from 10.0 or beyond, or
\* forward_looking_density from 5.0 or beyond, leaves the score unchanged.
C10_ScoreMonotone ==
    \A c, d \in Callers :
        (HasInfo(c) /\ HasInfo(d)) =>
            LET x  == ScoreInputs(c)
                y  == ScoreInputs(d)
                sc == informativeness[c].informativeness_score
                sd == informativeness[d].informativeness_score
            IN  /\ \A k \in 1..4 : RaisedAt(x, y, k) => RLe(sc, sd)
                /\ (RaisedAt(x, y, 1) /\ RGe(x[1], Num(10))) => sc = sd
                /\ (RaisedAt(x, y, 3) /\ RGe(x[3], Num(5))) => sc = sd

\* two analyses that differ only in mean_density, 10% against 20%, both at
\* the ceiling of the density term
C10_Witness ==
    /\ HasInfo("a") /\ HasInfo("b")
    /\ sentence_metrics["a"].mean_numeric_density = Num(10)
    /\ sentence_metrics["b"].mean_numeric_density = Num(20)
    /\ numerical_scores["a"] = numerical_scores["b"]


\* the records caller c holds are those of its own document analysed alone
AnalysedAlone(c) ==
    /\ Analysed(c) =>
           sentence_metrics[c] = analyze_sentence_density(text[c])
    /\ HasPattern(c) =>
           distribution[c] =
               analyze_distribution_patterns(sentence_metrics[c], sections[c], speakers[c])
    /\ HasInfo(c) =>
           informativeness[c] =
               calculate_informativeness(sentence_metrics[c], numerical_scores[c],
                                         distribution[c])

\* C22: under every interleaving of the analyses of two documents on the
\* shared analyzer, every document's records equal those produced when it is
\* analysed alone; in particular the SentenceDensityMetrics a caller holds
\* after analyze_distribution_patterns and calculate_informativeness are
\* still those analyze_sentence_density returned for its text, and a caller
\* that has not called yet holds nothing.
C22_NoSharedState ==
    \A c \in Callers :
        /\ AnalysedAlone(c)
        /\ ~Analysed(c) => sentence_metrics[c] = None

\* two different documents in flight at once, one composed, one half-way
C22_Witness ==
    /\ pc["a"] = "info"
    /\ pc["b"] = "pattern"
    /\ text["a"] # <<>> /\ text["b"] # <<>>
    /\ sentence_metrics["a"] # sentence_metrics["b"]

(***************************************************************************)
(* SpecScores: the composer's derived scores and categorical tiers.  One   *)
(* caller; documents of sentences at 0%, 5% or 20% (mean densities below   *)
(* and above the 3.5% baseline and the 10% ceiling); external scores that  *)
(* include the all-zero _empty_scores record of transparency.py, values    *)
(* that put informativeness_score exactly on every tier threshold, and     *)
(* out-of-range values (specificity 4.0, contextualization -1).            *)
(***************************************************************************)
MaxScoreLen == 2
ScoreSentences ==
    { [nums |-> 0, words |-> 1, q |-> FALSE],
      [nums |-> 1, words |-> 20, q |-> FALSE],
      [nums |-> 1, words |-> 5, q |-> FALSE] }

WideScoreInputs ==
    [ numerical_specificity_index      : {Zero, Rat(3, 10), Num(2), Num(4)},
      forward_looking_density          : {Zero, One, Num(5), Num(10)},
      backward_looking_density         : {Zero},
      forward_to_backward_ratio        : {Zero, Num(3)},
      contextualization_quality_score  : {Num(-1), Zero, Rat(1, 2), One} ]

NextScores ==
    \E c \in {"a"} :
        \/ \E s \in ScoreSentences : ReadSentence(c, s, MaxScoreLen)
        \/ AnalyzeSentenceDensity(c)
        \/ AnalyzeDistributionPatterns(c, NoMapping, NoMapping)
        \/ \E ns \in WideScoreInputs : CalculateInformativeness(c, ns)

SpecScores == Init /\ [][NextScores]_vars

(***************************************************************************)
(* Properties of the derived scores and tiers (under SpecScores).          *)
(***************************************************************************)
Clamp0To100(x) == RMax(Zero, RMin(x, Num(100)))

\* the unclamped forecast relevance sum of caller c's analysis
ForecastSum(c) ==
    LET ns == numerical_scores[c]
    IN  RAdd(RAdd(RMul(ns.forward_looking_density, Num(40)),
                  RMul(RDiv(ns.forward_to_backward_ratio, Num(3)), Num(20))),
             RAdd(RMul(RDiv(ns.numerical_specificity_index, Num(2)), Num(25)),
                  RMul(ns.contextualization_quality_score, Num(20))))

\* C11: forecast_relevance_score equals forward_looking_density*40 +
\* (forward_to_backward_ratio/3.0)*20 + specificity_component +
\* context_component clamped to [0,100]; it is never above 100 nor below 0.
C11_ForecastClamped ==
    \A c \in Callers :
        HasInfo(c) =>
            /\ informativeness[c].forecast_relevance_score = Clamp0To100(ForecastSum(c))
            /\ RGe(informativeness[c].forecast_relevance_score, Zero)
            /\ RLe(informativeness[c].forecast_relevance_score, Num(100))

\* lo <= x < hi
InBand(x, lo, hi) == RGe(x, Num(lo)) /\ RLt(x, Num(hi))

\* C12: quantitative_disclosure_level is very_high iff score >= 75, high iff
\* 60 <= score < 75, medium iff 40 <= score < 60, low iff 25 <= score < 40,
\* very_low iff score < 25, the score being informativeness_score.
C12_DisclosureLevelBands ==
    \A c \in Callers :
        HasInfo(c) =>
            LET score == informativeness[c].informativeness_score
                level == informativeness[c].quantitative_disclosure_level
            IN  /\ level \in {"very_high", "high", "medium", "low", "very_low"}
                /\ (level = "very_high") <=> RGe(score, Num(75))
                /\ (level = "high") <=> InBand(score, 60, 75)
                /\ (level = "medium") <=> InBand(score, 40, 60)
                /\ (level = "low") <=> InBand(score, 25, 40)
                /\ (level = "very_low") <=> RLt(score, Num(25))

\* an analysis whose score is exactly 75, reported very_high
C12_Witness ==
    /\ HasInfo("a")
    /\ informativeness["a"].informativeness_score = Num(75)
    /\ informativeness["a"].quantitative_disclosure_level = "very_high"

\* C13: transparency_tier is top_quartile iff score >= 70, above_average iff
\* 55 <= score < 70, average iff 40 <= score < 55, below_average iff
\* 25 <= score < 40, bottom_quartile iff score < 25, on the same score.
C13_TransparencyTierBands ==
    \A c \in Callers :
        HasInfo(c) =>
            LET score == informativeness[c].informativeness_score
                tier  == informativeness[c].transparency_tier
            IN  /\ tier \in {"top_quartile", "above_average", "average",
                             "below_average", "bottom_quartile"}
                /\ (tier = "top_quartile") <=> RGe(score, Num(70))
                /\ (tier = "above_average") <=> InBand(score, 55, 70)
                /\ (tier = "average") <=> InBand(score, 40, 55)
                /\ (tier = "below_average") <=> InBand(score, 25, 40)
                /\ (tier = "bottom_quartile") <=> RLt(score, Num(25))

\* an analysis whose score is exactly 55, reported above_average
C13_Witness ==
    /\ HasInfo("a")
    /\ informativeness["a"].informativeness_score = Num(55)
    /\ informativeness["a"].transparency_tier = "above_average"

\* C14: numeric_avoidance_risk equals (3.5 - mean_density) * 20 clamped to
\* [0,100]: 0 for every mean_density >= 3.5, 20 per percentage point of
\* mean_density below 3.5, never below 0 or above 100.
C14_AvoidanceRisk ==
    \A c \in Callers :
        HasInfo(c) =>
            LET mean == sentence_metrics[c].mean_numeric_density
                risk == informativeness[c].numeric_avoidance_risk
                gap  == RSub(Rat(7, 2), mean)
            IN  /\ risk = Clamp0To100(RMul(gap, Num(20)))
                /\ RGe(mean, Rat(7, 2)) => risk = Zero
                /\ RLt(mean, Rat(7, 2)) => risk = RMul(gap, Num(20))
                /\ RGe(risk, Zero) /\ RLe(risk, Num(100))

\* a document of mean density 2.5%, one point below the baseline: risk 20
C14_Witness ==
    /\ HasInfo("a")
    /\ sentence_metrics["a"].mean_numeric_density = Rat(5, 2)
    /\ informativeness["a"].numeric_avoidance_risk = Num(20)

\* the all-zero NumericalScores (_empty_scores of transparency.py)
EmptyScores(ns) ==
    /\ ns.numerical_specificity_index = Zero
    /\ ns.forward_looking_density = Zero
    /\ ns.backward_looking_density = Zero
    /\ ns.forward_to_backward_ratio = Zero
    /\ ns.contextualization_quality_score = Zero

\* C15: with total_sentences = 0, numeric_inclusion_ratio and
\* specificity_weighted_nir are 0.0; with all-zero external scores as well,
\* informativeness_score and forecast_relevance_score are 0, the level is
\* very_low, the tier bottom_quartile and the benchmark "below".
C15_ZeroSentencesFloor ==
    \A c \in Callers :
        (HasInfo(c) /\ sentence_metrics[c].total_sentences = 0) =>
            LET r == informativeness[c]
            IN  /\ r.numeric_inclusion_ratio = Zero
                /\ r.specificity_weighted_nir = Zero
                /\ EmptyScores(numerical_scores[c]) =>
                      /\ r.informativeness_score = Zero
                      /\ r.forecast_relevance_score = Zero
                      /\ r.quantitative_disclosure_level = "very_low"
                      /\ r.transparency_tier = "bottom_quartile"
                      /\ r.vs_sp500_informativeness = "below"

\* the empty document composed with the all-zero external scores
C15_Witness ==
    /\ HasInfo("a")
    /\ text["a"] = <<>>
    /\ sentence_metrics["a"].total_sentences = 0
    /\ EmptyScores(numerical_scores["a"])


\* C30: the three labels derived from one informativeness_score agree:
\* very_low iff bottom_quartile, low iff below_average, very_high implies
\* top_quartile, above_average implies medium or high; the benchmark is
\* "above" iff score > 50, "at" iff 45 <= score <= 50 (then the level is
\* medium and the tier average), "below" otherwise.
C30_LabelsConsistent ==
    \A c \in Callers :
        HasInfo(c) =>
            LET score == informativeness[c].informativeness_score
                level == informativeness[c].quantitative_disclosure_level
                tier  == informativeness[c].transparency_tier
                bench == informativeness[c].vs_sp500_informativeness
            IN  /\ (level = "very_low") <=> (tier = "bottom_quartile")
                /\ (level = "low") <=> (tier = "below_average")
                /\ (level = "very_high") => (tier = "top_quartile")
                /\ (tier = "above_average") => (level \in {"medium", "high"})
                /\ bench \in {"above", "at", "below"}
                /\ (bench = "above") <=> RGt(score, Num(50))
                /\ (bench = "at") <=> (RGe(score, Num(45)) /\ RLe(score, Num(50)))
                /\ (bench = "at") => (level = "medium" /\ tier = "average")
                /\ (bench = "below") <=> RLt(score, Num(45))

\* a score of exactly 50, the upper edge of the "at" band
C30_Witness ==
    /\ HasInfo("a")
    /\ informativeness["a"].informativeness_score = Num(50)
    /\ informativeness["a"].vs_sp500_informativeness = "at"
    /\ informativeness["a"].quantitative_disclosure_level = "medium"
    /\ informativeness["a"].transparency_tier = "average"

(***************************************************************************)
(* Specification of the Q&A analysis: short documents, and a sections      *)
(* mapping that holds a Q&A text under the key "Q&A", under the key        *)
(* "Questions and Answers", under both, or under neither.                  *)
(***************************************************************************)
MaxQADocLen == 1
MaxQASectionLen == 2

QADocSentences ==
    { [nums |-> 0, words |-> 10, q |-> FALSE],
      [nums |-> 1, words |-> 10, q |-> FALSE] }

\* a question without numbers, a question with one, two answers
QASentences ==
    { [nums |-> 0, words |-> 10, q |-> TRUE],
      [nums |-> 1, words |-> 5, q |-> TRUE],
      [nums |-> 1, words |-> 10, q |-> FALSE],
      [nums |-> 0, words |-> 10, q |-> FALSE] }

QASectionTexts == UNION { [1..n -> QASentences] : n \in 0..MaxQASectionLen }

SectionInputs ==
    {NoMapping}
    \cup { [k \in {"Q&A"} |-> t] : t \in QASectionTexts }
    \cup { [k \in {"Questions and Answers"} |-> t] : t \in QASectionTexts }
    \cup { [k \in {"Q&A", "Questions and Answers"} |->
               IF k = "Q&A" THEN t ELSE <<[nums |-> 1, words |-> 10, q |-> FALSE]>>] :
           t \in QASectionTexts }

NextQA ==
    \E c \in {"a"} :
        \/ \E s \in QADocSentences : ReadSentence(c, s, MaxQADocLen)
        \/ AnalyzeSentenceDensity(c)
        \/ \E sects \in SectionInputs : AnalyzeDistributionPatterns(c, sects, NoMapping)

SpecQA == Init /\ [][NextQA]_vars

(***************************************************************************)
(* Properties of the Q&A analysis (under SpecQA).                          *)
(***************************************************************************)
\* the three Q&A fields of a DistributionPattern
QAFields(d) ==
    [question     |-> d.question_avg_density,
     answer       |-> d.answer_avg_density,
     differential |-> d.qa_density_differential]

\* C17: when the sections mapping has no "Q&A" key but has a "Questions and
\* Answers" key with non-empty text, question_avg_density, answer_avg_density
\* and qa_density_differential are those computed for the same text under
\* the key "Q&A".
C17_FallbackKeyUsed ==
    \A c \in Callers :
        (/\ HasPattern(c)
         /\ "Q&A" \notin DOMAIN sections[c]
         /\ "Questions and Answers" \in DOMAIN sections[c]
         /\ sections[c]["Questions and Answers"] # <<>>) =>
            QAFields(distribution[c]) =
                qa_analysis([k \in {"Q&A"} |-> sections[c]["Questions and Answers"]])

\* the Q&A section of a mapping: canonical "Q&A", else "Questions and
\* Answers", else the empty text
QASection(sects) ==
    IF "Q&A" \in DOMAIN sects THEN sects["Q&A"]
    ELSE IF "Questions and Answers" \in DOMAIN sects
         THEN sects["Questions and Answers"]
         ELSE <<>>

SentenceDensities(t) == [i \in 1..Len(t) |-> calculate_sentence_density(t[i])]

\* C18: qa_density_differential is 0.0 whenever the Q&A section is absent or
\* empty, or holds no question sentence, or holds no answer sentence;
\* otherwise it is mean(answer densities) - mean(question densities).
C18_DifferentialZeroOnEmptySubset ==
    \A c \in Callers :
        HasPattern(c) =>
            LET t  == QASection(sections[c])
                qs == SelectSeq(t, LAMBDA s : s.q)
                as == SelectSeq(t, LAMBDA s : ~s.q)
            IN  distribution[c].qa_density_differential =
                    IF t = <<>> \/ qs = <<>> \/ as = <<>>
                    THEN Zero
                    ELSE RSub(Mean(SentenceDensities(as)), Mean(SentenceDensities(qs)))

(***************************************************************************)
(* Specification of the top-dense ranking: documents long enough for the   *)
(* truncation to ten entries to drop a sentence.                           *)
(***************************************************************************)
MaxTopLen == 11

TopSentences ==
    { [nums |-> 0, words |-> 5, q |-> FALSE],
      [nums |-> 1, words |-> 5, q |-> FALSE] }

NextTop ==
    \E c \in {"a"} :
        \/ \E s \in TopSentences : ReadSentence(c, s, MaxTopLen)
        \/ AnalyzeSentenceDensity(c)

SpecTop == Init /\ [][NextTop]_vars

(***************************************************************************)
(* Properties of top_dense_sentences (under SpecTop).                      *)
(***************************************************************************)
\* C20: top_dense_sentences holds min(10, total_sentences) (sentence,
\* density) pairs in non-increasing density order, sentences of equal
\* density in their document order, and no sentence left out has a higher
\* density than one that is included.
C20_TopDenseRanking ==
    \A c \in Callers :
        Analysed(c) =>
            LET top   == sentence_metrics[c].top_dense_sentences
                ds    == sentence_metrics[c].density_by_position
                total == sentence_metrics[c].total_sentences
                kept  == {top[k][1] : k \in 1..Len(top)}
            IN  /\ Len(top) = IF total < 10 THEN total ELSE 10
                /\ \A k \in 1..Len(top) :
                       /\ top[k][1] \in 0..(total - 1)
                       /\ top[k][2] = ds[top[k][1] + 1]
                /\ Cardinality(kept) = Len(top)
                /\ \A k, l \in 1..Len(top) :
                       k < l =>
                           /\ RGe(top[k][2], top[l][2])
                           /\ top[k][2] = top[l][2] => top[k][1] < top[l][1]
                /\ \A i \in (0..(total - 1)) \ kept :
                       \A k \in 1..Len(top) : RLe(ds[i + 1], top[k][2])

\* an 11-sentence document whose ranking is truncated, does not start with
\* the first sentence, and holds tied sentences of both densities
C20_Witness ==
    LET top == sentence_metrics["a"].top_dense_sentences
    IN  /\ Analysed("a")
        /\ sentence_metrics["a"].total_sentences = 11
        /\ Len(top) = 10
        /\ top[1][1] # 0
        /\ top[1][2] = top[2][2]
        /\ top[9][2] = top[10][2]
        /\ RGt(top[1][2], top[10][2])

(***************************************************************************)
(* SpecShape: the positional split and the rule order of _classify_pattern.*)
(* One caller; documents of up to MaxShapeLen sentences at 0%, 20% (1/5)   *)
(* or 24% (6/25): nearly even documents whose segments still differ by     *)
(* more than 3 points, and segments that differ by less than 3 points.     *)
(***************************************************************************)
MaxShapeLen == 6
ShapeSentences ==
    { [nums |-> 0, words |-> 1, q |-> FALSE],
      [nums |-> 1, words |-> 5, q |-> FALSE],
      [nums |-> 6, words |-> 25, q |-> FALSE] }

NextShape ==
    \E c \in {"a"} :
        \/ \E s \in ShapeSentences : ReadSentence(c, s, MaxShapeLen)
        \/ AnalyzeSentenceDensity(c)
        \/ AnalyzeDistributionPatterns(c, NoMapping, NoMapping)

SpecShape == Init /\ [][NextShape]_vars

(***************************************************************************)
(* Properties of the split and of the rule order (under SpecShape).        *)
(***************************************************************************)
\* the positional rules, on a returned DistributionPattern
FrontRule(d) ==
    /\ RGt(RSub(d.beginning_density, d.middle_density), Num(3))
    /\ RGt(RSub(d.beginning_density, d.end_density), Num(3))

BackRule(d) ==
    /\ RGt(RSub(d.end_density, d.middle_density), Num(3))
    /\ RGt(RSub(d.end_density, d.middle_density),
           RNeg(RSub(d.beginning_density, d.middle_density)))

\* CV < 0.3 and CV > 0.7, on the squared ratio the record holds
LowCV(d)  == RLt(d.coefficient_of_variation, Rat(9, 100))
HighCV(d) == RGt(d.coefficient_of_variation, Rat(49, 100))

\* C23: the rules are applied in a fixed order and the first match wins:
\* CV < 0.3 gives (uniform, 0.9) even when a positional rule would match;
\* else the front rule gives front-loaded, min(1, (beginning-middle)/10);
\* else the back rule gives back-loaded, min(1, (end-middle)/10); else
\* CV > 0.7 gives (clustered, 0.8); else (scattered, 0.6).  A sequence of
\* identical densities is (uniform, 0.9).
C23_FirstMatchWins ==
    \A c \in Callers :
        HasPattern(c) =>
            LET d  == distribution[c]
                ds == sentence_metrics[c].density_by_position
                expected ==
                    IF LowCV(d) THEN <<"uniform", Rat(9, 10)>>
                    ELSE IF FrontRule(d)
                    THEN <<"front-loaded",
                           RMin(One, RDiv(RSub(d.beginning_density, d.middle_density),
                                          Num(10)))>>
                    ELSE IF BackRule(d)
                    THEN <<"back-loaded",
                           RMin(One, RDiv(RSub(d.end_density, d.middle_density),
                                          Num(10)))>>
                    ELSE IF HighCV(d) THEN <<"clustered", Rat(8, 10)>>
                    ELSE <<"scattered", Rat(6, 10)>>
            IN  /\ <<d.pattern_type, d.pattern_confidence>> = expected
                /\ (\A i, j \in 1..Len(ds) : ds[i] = ds[j]) =>
                       <<d.pattern_type, d.pattern_confidence>> = <<"uniform", Rat(9, 10)>>

\* a nearly even document whose beginning is more than 3 points above its
\* middle and its end, reported uniform
C23_Witness ==
    /\ HasPattern("a")
    /\ FrontRule(distribution["a"])
    /\ distribution["a"].pattern_type = "uniform"

\* C25: beginning_density is the mean of the first floor(0.2*n) densities,
\* end_density the mean of the last n - floor(0.8*n), middle_density the
\* mean of those in between; a segment without sentences has density 0.0;
\* every sentence index is in exactly one segment.
C25_PositionalSplit ==
    \A c \in Callers :
        HasPattern(c) =>
            LET ds == sentence_metrics[c].density_by_position
                n  == Len(ds)
                nb == n \div 5
                ne == n - ((4 * n) \div 5)
                B  == 1..nb
                M  == (nb + 1)..(n - ne)
                E  == (n - ne + 1)..n
                MeanAt(S) == IF S = {} THEN Zero
                             ELSE Mean([k \in 1..Cardinality(S) |->
                                          ds[k + (CHOOSE i \in S : \A j \in S : i <= j) - 1]])
            IN  /\ distribution[c].beginning_density = MeanAt(B)
                /\ distribution[c].middle_density = MeanAt(M)
                /\ distribution[c].end_density = MeanAt(E)
                /\ B \cup M \cup E = 1..n
                /\ B \cap M = {} /\ M \cap E = {} /\ B \cap E = {}

\* a 4-sentence document: no beginning segment although the first sentence
\* is numeric, three sentences in the middle, one at the end
C25_Witness ==
    /\ HasPattern("a")
    /\ Len(text["a"]) = 4
    /\ RGt(sentence_metrics["a"].density_by_position[1], Zero)
    /\ distribution["a"].beginning_density = Zero
    /\ distribution["a"].middle_density = Rat(44, 3)
    /\ distribution["a"].end_density = Num(20)

\* C27: whenever the pattern is back-loaded the end density is greater than
\* the beginning density, and whenever it is front-loaded the beginning
\* density is greater than the end density.
C27_LoadedSideIsDenser ==
    \A c \in Callers :
        HasPattern(c) =>
            LET d == distribution[c]
            IN  /\ d.pattern_type = "back-loaded" =>
                       RGt(d.end_density, d.beginning_density)
                /\ d.pattern_type = "front-loaded" =>
                       RGt(d.beginning_density, d.end_density)

(***************************************************************************)
(* Further properties of the cluster detector (under SpecPattern).         *)
(***************************************************************************)
\* the 0-based starts of the hot windows of ds: five sentences whose
\* densities sum to at least 5 * 12.0
HotWindows(ds) ==
    {i \in 0..(Len(ds) - 5) :
        RGe(RSum(SubSeq(ds, i + 1, i + 5)), Num(60))}

\* the last window of the run of consecutive hot windows that starts at i
LastOfRun(H, i) ==
    CHOOSE j \in H :
        /\ j >= i
        /\ \A k \in i..j : k \in H
        /\ (j + 1) \notin H

\* C24: a 5-sentence window is hot iff its mean is >= 12.0; each run of
\* overlapping or adjacent hot windows is one cluster whose range is
\* [start of the first hot window, end index of the last hot window]; a
\* cluster open at the end of the scan ends at the final sentence index; a
\* sequence shorter than 5 sentences has no cluster.
C24_ClusterRangeIsHotRun ==
    \A c \in Callers :
        HasPattern(c) =>
            LET ds     == sentence_metrics[c].density_by_position
                cp     == distribution[c].cluster_positions
                H      == HotWindows(ds)
                starts == {i \in H : (i - 1) \notin H}
            IN  /\ Len(cp) = Cardinality(starts)
                /\ {cp[k] : k \in 1..Len(cp)} =
                       {<<i, LastOfRun(H, i) + 4>> : i \in starts}
                /\ \A k \in 1..(Len(cp) - 1) : cp[k][1] < cp[k + 1][1]
                /\ Len(ds) < 5 => cp = <<>>
                /\ (Len(ds) >= 5 /\ (Len(ds) - 5) \in H) =>
                       cp[Len(cp)][2] = Len(ds) - 1

\* C28 (as stated): every value in cluster_densities is >= 12.0.
C28_ClusterDensityAtLeastThreshold ==
    \A c \in Callers :
        HasPattern(c) =>
            \A k \in 1..Len(distribution[c].cluster_densities) :
                RGe(distribution[c].cluster_densities[k], Num(12))

\* C28 (amended): every value in cluster_densities is >= 20/3, and the
\* 5-sentence window at the cluster's start index has mean >= 12.0.
C28_ClusterDensityFloor ==
    \A c \in Callers :
        HasPattern(c) =>
            LET ds == sentence_metrics[c].density_by_position
                cp == distribution[c].cluster_positions
                cd == distribution[c].cluster_densities
            IN  \A k \in 1..Len(cd) :
                    /\ RGe(cd[k], Rat(20, 3))
                    /\ cp[k][1] \in HotWindows(ds)

\* a reported cluster whose density is below the threshold
C28_Witness ==
    /\ HasPattern("a")
    /\ \E k \in 1..Len(distribution["a"].cluster_densities) :
           RLt(distribution["a"].cluster_densities[k], Num(12))

\* C29: cluster_count is the length of cluster_positions and of
\* cluster_densities, and cluster_densities[k] is the mean of the densities
\* at the indices start..end, both inclusive, of cluster_positions[k].
C29_ClusterDensityIsRangeMean ==
    \A c \in Callers :
        HasPattern(c) =>
            LET ds == sentence_metrics[c].density_by_position
                cp == distribution[c].cluster_positions
                cd == distribution[c].cluster_densities
            IN  /\ distribution[c].cluster_count = Len(cp)
                /\ distribution[c].cluster_count = Len(cd)
                /\ \A k \in 1..Len(cp) :
                       cd[k] = Mean(SubSeq(ds, cp[k][1] + 1, cp[k][2] + 1))

(***************************************************************************)
(* SpecBar: the heatmap bar.  Densities in half points from 0% to beyond   *)
(* the 20% reference ceiling and one far beyond it; widths from 0 to       *)
(* MaxBarWidth and the widths the heatmap uses (30, 50) and the default    *)
(* (40).                                                                   *)
(***************************************************************************)
MaxBarWidth == 8
MaxBarHalfPoints == 44

BarDensities == {Rat(k, 2) : k \in 0..MaxBarHalfPoints} \cup {Num(150)}
BarWidths == (0..MaxBarWidth) \cup {30, 40, 50}

NextBar ==
    \E c \in {"a"} :
        \E density \in BarDensities, max_width \in BarWidths :
            DensityBar(c, density, max_width)

SpecBar == Init /\ [][NextBar]_vars

\* C26: for every density >= 0 and every max_width the bar has exactly
\* max_width cells between the brackets, of which
\* min(floor(density/20 * max_width), max_width) are filled; a density of
\* 20% or more fills the bar; the filled count never exceeds max_width.
C26_BarWidth ==
    \A c \in Callers :
        bar[c] # None =>
            LET out    == bar[c].out
                w      == bar[c].max_width
                d      == bar[c].density
                cells  == SubSeq(out, 2, Len(out) - 1)
                filled == Cardinality({i \in 1..Len(cells) : cells[i] = "#"})
                scaled == (d[1] * w) \div (20 * d[2])
            IN  /\ Len(out) >= 2 /\ out[1] = "[" /\ out[Len(out)] = "]"
                /\ Len(cells) = w
                /\ \A i \in 1..Len(cells) : cells[i] \in {"#", "-"}
                /\ filled = IF scaled < w THEN scaled ELSE w
                /\ filled <= w
                /\ RGe(d, Num(20)) => filled = w

\* the bar of a 7.5% density at the heatmap's width 50: 18 of 50 cells
C26_Witness ==
    /\ bar["a"] # None
    /\ bar["a"].density = Rat(15, 2)
    /\ bar["a"].max_width = 50
    /\ Cardinality({i \in 1..Len(bar["a"].out) : bar["a"].out[i] = "#"}) = 18

====
